---- MODULE Spec2Model ----
(***************************************************************************)
(* CodeTravailChunker (src/src/modules/chunking.py): the line parser that  *)
(* turns the linearised labour code into one chunk per article.            *)
(*                                                                         *)
(* A string is modelled as the sequence of its lexemes: a word, a run of   *)
(* digits, a run of whitespace (WS) or one punctuation mark.  The regular  *)
(* expressions of the source are translated lexeme by lexeme; the input    *)
(* vocabulary holds no word that a character class of the source would     *)
(* split (no word starting with a roman-numeral letter other than the      *)
(* numerals themselves).                                                   *)
(***************************************************************************)
EXTENDS Naturals, Sequences, FiniteSets

VARIABLES
    chunks,                 \* self.chunks
    current_livre,          \* self.current_livre
    current_titre,          \* self.current_titre
    current_chapitre,       \* self.current_chapitre
    current_section,        \* self.current_section
    current_article,        \* self.current_article
    current_article_number, \* self.current_article_number
    current_article_text,   \* self.current_article_text
    text,                   \* parse_text: the argument text, as its '\n'-separated raw lines
    lines,                  \* parse_text: lines
    i,                      \* parse_text: i (1-based here, 0-based in the source)
    pc,                     \* "idle" | "loop" | "done": position in parse_text
    result,                 \* the value the last finished parse_text returned
    fed,                    \* history: raw lines handed to this chunker so far
    last,                   \* history: the operation or branch taken by the last step
    pre,                    \* history: context, cursor and chunk count before the last step
    first,                  \* history: text and result of the chunker's first finished parse
    entry,                  \* history: len(self.chunks) when the current parse began its loop
    file,                   \* the JSON file save_to_json writes and load_from_json reads
    saved,                  \* history: self.chunks at the last save_to_json
    stats,                  \* the value the last get_statistics returned
    start,                  \* history: the context and chunks the current parse began from
    other,                  \* the second chunker instance, its thread suspended
    par,                    \* history: both instances just before the last thread switch
    loaded_documents,       \* DocumentLoader.loaded_documents
    outcome,                \* history: the last call on the loader and what it raised
    born,                   \* history: the four level fields when the last Article line was taken
    order,                  \* history: the heading levels met so far, the most recent last
    handled,                \* history: how each line before the cursor was handled
    atflush,                \* history: the value of order when the last chunk was emitted
    short_term_memory,      \* ConversationMemory.short_term_memory
    short_term_limit,       \* ConversationMemory.config.short_term_limit
    added,                  \* history: the messages added since construction or the last clear
    memop                   \* history: the last call on the conversation memory

vars == <<chunks, current_livre, current_titre, current_chapitre, current_section,
          current_article, current_article_number, current_article_text,
          text, lines, i, pc, result, fed, last, pre, first, entry,
          file, saved, stats, start, other, par, loaded_documents, outcome,
          born, order, handled, atflush,
          short_term_memory, short_term_limit, added, memop>>

memory == <<short_term_memory, short_term_limit, added, memop>>

hist == <<born, order, handled, atflush>>

store == <<file, saved, stats>>

threads == <<other, par>>

loader == <<loaded_documents, outcome>>

\* what parse_text and process_pdf never touch
others == <<store, threads, loader, memory>>

\* Total number of raw input lines handed to one chunker over its life.
MaxLines == 3

-----------------------------------------------------------------------------
(* Strings as lexeme sequences *)

None == <<"<None>">>

Truthy(v) == v # None /\ v # <<>>

WS == " "

\* str.strip(): whitespace removed at both ends
RECURSIVE LStrip(_)
LStrip(s) == IF s # <<>> /\ Head(s) = WS THEN LStrip(Tail(s)) ELSE s

RECURSIVE RStrip(_)
RStrip(s) == IF s # <<>> /\ s[Len(s)] = WS THEN RStrip(SubSeq(s, 1, Len(s) - 1)) ELSE s

Strip(s) == RStrip(LStrip(s))

\* sep.join(parts)
RECURSIVE Join(_, _)
Join(sep, parts) ==
    IF parts = <<>> THEN <<>>
    ELSE IF Len(parts) = 1 THEN parts[1]
    ELSE parts[1] \o sep \o Join(sep, Tail(parts))

\* s.replace(old, new) for a one-character old
Replace(s, old, new) == [k \in 1..Len(s) |-> IF s[k] = old THEN new ELSE s[k]]

\* s.split(sep) for a one-character sep: the list of parts
RECURSIVE SplitFrom(_, _, _)
SplitFrom(s, sep, cur) ==
    IF s = <<>> THEN <<cur>>
    ELSE IF Head(s) = sep THEN <<cur>> \o SplitFrom(Tail(s), sep, <<>>)
    ELSE SplitFrom(Tail(s), sep, Append(cur, Head(s)))

Split(s, sep) == SplitFrom(s, sep, <<>>)

\* sub in s, for a one-character sub
Contains(s, sub) == \E k \in 1..Len(s) : s[k] = sub

-----------------------------------------------------------------------------
(* Lexeme classes: re.I makes every keyword and letter class case-blind *)

LivreKw    == {"LIVRE", "Livre", "livre"}
TitreKw    == {"TITRE", "Titre", "titre"}
ChapitreKw == {"CHAPITRE", "Chapitre", "chapitre"}
SectionKw  == {"SECTION", "Section", "section"}
ArtKw      == {"ART", "Art", "art"}
ArticleKw  == {"ARTICLE", "Article", "article"}

\* words made of the letters IVXLCDM only
RomanLex   == {"I", "II", "III", "IV", "V", "i", "ii"}
OrdinalLex == {"PREMIER", "DEUXIEME", "TROISIEME", "QUATRIEME", "CINQUIEME",
               "Premier", "premier"}
\* words made of letters a-z only
AlphaLex   == RomanLex \cup OrdinalLex \cup {"a", "b", "t", "s"}
DigitLex   == {"1", "2", "3", "9", "10"}
\* [\s.:]
SepLex     == {WS, ".", ":"}

\* the greedy [\s.:]* : what is left of s after its leading separators
RECURSIVE SkipSep(_)
SkipSep(s) == IF s # <<>> /\ Head(s) \in SepLex THEN SkipSep(Tail(s)) ELSE s

From(s, k) == SubSeq(s, k, Len(s))

NoMatch == [ok |-> FALSE, num |-> <<>>, rest |-> <<>>]

\* ^KEYWORD\s+(NUMERAL)[\s.:]*(.*)$ : group(1) and group(2)
HeadingMatch(line, kws, nums) ==
    IF Len(line) >= 3 /\ line[1] \in kws /\ line[2] = WS /\ line[3] \in nums
    THEN [ok |-> TRUE, num |-> <<line[3]>>, rest |-> SkipSep(From(line, 4))]
    ELSE NoMatch

livre_match(line)    == HeadingMatch(line, LivreKw, OrdinalLex \cup RomanLex)
titre_match(line)    == HeadingMatch(line, TitreKw, AlphaLex)
chapitre_match(line) == HeadingMatch(line, ChapitreKw, AlphaLex)
section_match(line)  == HeadingMatch(line, SectionKw, RomanLex \cup DigitLex)

\* ^(?:Art\.|Article)\s*(\d+(?:-\d+)?)[\s.:]*(.*)$
article_match(line) ==
    LET afterKw == IF Len(line) >= 2 /\ line[1] \in ArtKw /\ line[2] = "."
                   THEN From(line, 3)
                   ELSE IF Len(line) >= 1 /\ line[1] \in ArticleKw
                   THEN From(line, 2)
                   ELSE None
        s == IF afterKw # None /\ afterKw # <<>> /\ Head(afterKw) = WS
             THEN Tail(afterKw) ELSE afterKw
    IN  IF afterKw = None \/ s = <<>> \/ s = None THEN NoMatch
        ELSE IF Head(s) \notin DigitLex THEN NoMatch
        ELSE IF Len(s) >= 3 /\ s[2] = "-" /\ s[3] \in DigitLex
        THEN [ok |-> TRUE, num |-> SubSeq(s, 1, 3), rest |-> SkipSep(From(s, 4))]
        ELSE [ok |-> TRUE, num |-> <<s[1]>>, rest |-> SkipSep(From(s, 2))]

\* re.match(r'^(LIVRE|Titre|Chapitre|Section|Art)', line, re.I): the line
\* begins with a keyword, whatever follows it
PrefixLexNoArt == LivreKw \cup TitreKw \cup ChapitreKw \cup SectionKw

PrefixLex == LivreKw \cup TitreKw \cup ChapitreKw \cup SectionKw \cup ArtKw
             \cup ArticleKw \cup {"Artisans", "Sections", "Titres"}

KeywordPrefix(line) == line # <<>> /\ line[1] \in PrefixLex

-----------------------------------------------------------------------------
(* _create_chunk *)

\* re.search(KEYWORD\s+([^\s.]+), label, re.I): the first place of label where
\* the keyword, whitespace and a run free of whitespace and dots follow each other
RECURSIVE RunFrom(_, _)
RunFrom(s, k) ==
    IF k <= Len(s) /\ s[k] \notin {WS, "."} THEN <<s[k]>> \o RunFrom(s, k + 1) ELSE <<>>

SearchAt(label, kws, k) ==
    k + 2 <= Len(label) /\ label[k] \in kws /\ label[k + 1] = WS
    /\ label[k + 2] \notin {WS, "."}

SearchNumeral(label, kws) ==
    IF \E k \in 1..Len(label) : SearchAt(label, kws, k)
    THEN LET at == CHOOSE k \in 1..Len(label) :
                      /\ SearchAt(label, kws, k)
                      /\ \A m \in 1..(k - 1) : ~SearchAt(label, kws, m)
         IN  [ok |-> TRUE, num |-> RunFrom(label, at + 2)]
    ELSE [ok |-> FALSE, num |-> <<>>]

HierarchyPart(label, kws, word) ==
    IF Truthy(label) /\ SearchNumeral(label, kws).ok
    THEN << <<word, WS>> \o SearchNumeral(label, kws).num >>
    ELSE <<>>

hierarchy_parts_without_livre ==
    HierarchyPart(current_titre, TitreKw, "Titre")
    \o HierarchyPart(current_chapitre, ChapitreKw, "Chapitre")
    \o HierarchyPart(current_section, SectionKw, "Section")
    \o <<current_article>>

hierarchy_parts ==
    HierarchyPart(current_livre, LivreKw, "Livre")
    \o HierarchyPart(current_titre, TitreKw, "Titre")
    \o HierarchyPart(current_chapitre, ChapitreKw, "Chapitre")
    \o HierarchyPart(current_section, SectionKw, "Section")
    \o <<current_article>>

ChunkIdNoReplace(number) == <<"CT_TN_A">> \o number

chunk_id(number) == <<"CT_TN_A">> \o Replace(number, "-", "_")

BaseLast(number) ==
    IF Contains(number, "-") THEN Split(number, "-")[Len(Split(number, "-"))] ELSE number

is_sub_article(number) == Contains(number, "-")

base_article(number) ==
    IF is_sub_article(number) THEN Split(number, "-")[1] ELSE number

CreateChunkBelowCleared(article_text) ==
    [id |-> chunk_id(current_article_number),
     text |-> Strip(Join(<<WS>>, article_text)),
     metadata |->
        [livre |-> current_livre,
         titre |-> current_titre,
         chapitre |-> current_chapitre,
         section |-> None,
         article |-> current_article,
         article_number |-> current_article_number,
         base_article |-> base_article(current_article_number),
         is_sub_article |-> is_sub_article(current_article_number),
         law |-> <<"Code du travail tunisien">>,
         chunk_type |-> "article",
         citation |-> <<"Code du travail tunisien, art. ">> \o current_article_number,
         hierarchy_path |-> Join(<<WS, ">", WS>>, hierarchy_parts)]]

\* the chunk built from the context, article_text being self.current_article_text
CreateChunk(article_text) ==
    [id |-> chunk_id(current_article_number),
     text |-> Strip(Join(<<WS>>, article_text)),
     metadata |->
        [livre |-> current_livre,
         titre |-> current_titre,
         chapitre |-> current_chapitre,
         section |-> current_section,
         article |-> current_article,
         article_number |-> current_article_number,
         base_article |-> base_article(current_article_number),
         is_sub_article |-> is_sub_article(current_article_number),
         law |-> <<"Code du travail tunisien">>,
         chunk_type |-> "article",
         citation |-> <<"Code du travail tunisien, art. ">> \o current_article_number,
         hierarchy_path |-> Join(<<WS, ">", WS>>, hierarchy_parts)]]

-----------------------------------------------------------------------------
(* _save_article_chunk *)

RECURSIVE StripAll(_)
StripAll(ls) == IF ls = <<>> THEN <<>> ELSE <<Strip(Head(ls))>> \o StripAll(Tail(ls))

NonEmpty(l) == l # <<>>

cleaned_text_last ==
    IF current_article_text = <<>> THEN <<>>
    ELSE SelectSeq(<<Strip(current_article_text[Len(current_article_text)])>>, NonEmpty)

cleaned_text == SelectSeq(StripAll(current_article_text), NonEmpty)

SaveFiresAnyBody == Truthy(current_article)

\* _save_article_chunk appends a chunk
SaveFires ==
    Truthy(current_article) /\ current_article_text # <<>> /\ cleaned_text # <<>>

SavedChunksDedup ==
    IF SaveFires
    THEN IF chunks # <<>> /\ chunks[Len(chunks)].id = chunk_id(current_article_number)
         THEN [chunks EXCEPT ![Len(chunks)] = CreateChunk(cleaned_text)]
         ELSE Append(chunks, CreateChunk(cleaned_text))
    ELSE chunks

SavedChunksPrepend ==
    IF SaveFires THEN <<CreateChunk(cleaned_text)>> \o chunks ELSE chunks

\* self.chunks after _save_article_chunk()
SavedChunks == IF SaveFires THEN Append(chunks, CreateChunk(cleaned_text)) ELSE chunks

SavedTextKeep == current_article_text

\* self.current_article_text after _save_article_chunk()
SavedText == IF SaveFires THEN <<>> ELSE current_article_text

-----------------------------------------------------------------------------
(* Inputs *)

\* The raw lines an input text is made of.
RawLines ==
    { <<>>,                                          \* an empty line
      <<WS>>,                                        \* a whitespace-only line
      <<"LIVRE", WS, "I">>,
      <<"livre", WS, "premier", ":", WS, "t">>,      \* heading with an inline title
      <<"Titre", WS, "I">>,
      <<"Chapitre", WS, "II">>,
      <<"Section", WS, "1">>,
      <<"Art", ".", WS, "1", WS, "a">>,              \* article with an inline fragment
      <<"Article", WS, "1", "-", "2">>,              \* sub-article, no inline fragment
      <<WS, "b", WS>>,                               \* plain text, padded
      <<"Titre", WS, "1">> }                         \* keyword first, but no matcher matches

Texts(n) == UNION { [1..m -> RawLines] : m \in 1..n }

\* extract_text_from_pdf: every page's text followed by "\n", so the text ends
\* with an empty line
ExtractTextFromPdf(pdf) == pdf \o << <<>> >>

\* [line.strip() for line in text.split('\n') if line.strip()]
Normalise(txt) == SelectSeq(StripAll(txt), NonEmpty)

-----------------------------------------------------------------------------
(* save_to_json, load_from_json: the JSON document of a chunk list *)

NoFile == [t |-> "nofile", v |-> <<>>]

\* json.dump of one value: None, a bool or a str
JsonOfStr(x) == IF x = None THEN [t |-> "null", v |-> <<>>] ELSE [t |-> "string", v |-> x]

JsonOfBool(b) == [t |-> IF b THEN "true" ELSE "false", v |-> <<>>]

\* json.load of one value
StrOfJson(j) == IF j.t = "null" THEN None ELSE j.v

BoolOfJson(j) == j.t = "true"

\* the members of a JSON object, kept in the order of the dict's keys
Member(key, j) == [key |-> key, value |-> j]

\* d[key] on a loaded object
Lookup(members, key) ==
    members[CHOOSE k \in 1..Len(members) : members[k].key = key].value

JsonOfMetadata(m) ==
    << Member("livre", JsonOfStr(m.livre)),
       Member("titre", JsonOfStr(m.titre)),
       Member("chapitre", JsonOfStr(m.chapitre)),
       Member("section", JsonOfStr(m.section)),
       Member("article", JsonOfStr(m.article)),
       Member("article_number", JsonOfStr(m.article_number)),
       Member("base_article", JsonOfStr(m.base_article)),
       Member("is_sub_article", JsonOfBool(m.is_sub_article)),
       Member("law", JsonOfStr(m.law)),
       Member("chunk_type", JsonOfStr(<<m.chunk_type>>)),
       Member("citation", JsonOfStr(m.citation)),
       Member("hierarchy_path", JsonOfStr(m.hierarchy_path)) >>

JsonOfChunk(c) ==
    << Member("id", JsonOfStr(c.id)),
       Member("text", JsonOfStr(c.text)),
       Member("metadata", [t |-> "object", v |-> JsonOfMetadata(c.metadata)]) >>

\* json.dump(self.chunks, f, ensure_ascii=False, indent=2)
JsonDump(cs) == [t |-> "array", v |-> [k \in 1..Len(cs) |-> JsonOfChunk(cs[k])]]

MetadataOfJson(ms) ==
    [livre |-> StrOfJson(Lookup(ms, "livre")),
     titre |-> StrOfJson(Lookup(ms, "titre")),
     chapitre |-> StrOfJson(Lookup(ms, "chapitre")),
     section |-> StrOfJson(Lookup(ms, "section")),
     article |-> StrOfJson(Lookup(ms, "article")),
     article_number |-> StrOfJson(Lookup(ms, "article_number")),
     base_article |-> StrOfJson(Lookup(ms, "base_article")),
     is_sub_article |-> BoolOfJson(Lookup(ms, "is_sub_article")),
     law |-> StrOfJson(Lookup(ms, "law")),
     chunk_type |-> StrOfJson(Lookup(ms, "chunk_type"))[1],
     citation |-> StrOfJson(Lookup(ms, "citation")),
     hierarchy_path |-> StrOfJson(Lookup(ms, "hierarchy_path"))]

ChunkOfJson(ms) ==
    [id |-> StrOfJson(Lookup(ms, "id")),
     text |-> StrOfJson(Lookup(ms, "text")),
     metadata |-> MetadataOfJson(Lookup(ms, "metadata").v)]

\* json.load(f)
JsonLoad(doc) == [k \in 1..Len(doc.v) |-> ChunkOfJson(doc.v[k])]

LoadedChunksExtend == chunks \o JsonLoad(file)

\* self.chunks after load_from_json
LoadedChunks == JsonLoad(file)

-----------------------------------------------------------------------------
(* get_statistics *)

NoStats ==
    [total_chunks |-> 0, total_articles |-> 0, base_articles |-> 0, sub_articles |-> 0,
     livres |-> 0, titres |-> 0, chapitres |-> 0, sections |-> 0]

\* the stats dict before the loop
StatsStart(cs) ==
    [total_chunks |-> Len(cs), total_articles |-> Len(cs), sub_articles |-> 0,
     base_articles |-> 0, livres |-> {}, titres |-> {}, chapitres |-> {}, sections |-> {}]

\* the loop over self.chunks, st being the stats dict so far
RECURSIVE StatsLoop(_, _)
StatsLoop(cs, st) ==
    IF cs = <<>> THEN st
    ELSE LET meta == Head(cs).metadata
         IN  StatsLoop(Tail(cs),
                [st EXCEPT
                   !.sub_articles = IF meta.is_sub_article THEN @ + 1 ELSE @,
                   !.base_articles = IF meta.is_sub_article THEN @ ELSE @ + 1,
                   !.livres = IF Truthy(meta.livre) THEN @ \cup {meta.livre} ELSE @,
                   !.titres = IF Truthy(meta.titre) THEN @ \cup {meta.titre} ELSE @,
                   !.chapitres = IF Truthy(meta.chapitre) THEN @ \cup {meta.chapitre} ELSE @,
                   !.sections = IF Truthy(meta.section) THEN @ \cup {meta.section} ELSE @])

LabelCountWithNone(labels) == Cardinality(labels \cup {None})

\* len() of a label set
LabelCount(labels) == Cardinality(labels)

\* the dict get_statistics returns
Statistics(cs) ==
    LET st == StatsLoop(cs, StatsStart(cs))
    IN  [total_chunks |-> st.total_chunks, total_articles |-> st.total_articles,
         base_articles |-> st.base_articles, sub_articles |-> st.sub_articles,
         livres |-> LabelCount(st.livres), titres |-> LabelCount(st.titres),
         chapitres |-> LabelCount(st.chapitres),
         sections |-> LabelCount(st.sections)]

-----------------------------------------------------------------------------
(* DocumentLoader *)

MaxClock == 2

\* what datetime.now() may read when a Document is created
Times == 1..MaxClock

\* The paths load is called with: the suffix of the path, whether it exists,
\* and what the extraction of its content raises.
Files ==
    { [name |-> "a", suffix |-> ".pdf", exists |-> TRUE, extract |-> "none"],
      [name |-> "b", suffix |-> ".txt", exists |-> TRUE, extract |-> "none"],
      [name |-> "c", suffix |-> ".docx", exists |-> TRUE, extract |-> "ImportError"],
      [name |-> "d", suffix |-> ".PDF", exists |-> TRUE, extract |-> "none"],
      [name |-> "s", suffix |-> ".pdf", exists |-> TRUE, extract |-> "ValueError"],
      [name |-> "test", suffix |-> ".xyz", exists |-> TRUE, extract |-> "none"],
      [name |-> "README", suffix |-> "", exists |-> TRUE, extract |-> "none"],
      [name |-> "nonexistent_file", suffix |-> ".txt", exists |-> FALSE, extract |-> "none"],
      [name |-> "gone", suffix |-> ".xyz", exists |-> FALSE, extract |-> "none"] }

NoCall ==
    [op |-> "init",
     path |-> [name |-> "", suffix |-> "", exists |-> FALSE, extract |-> "none"],
     raised |-> "none", before |-> <<>>]

\* str.lower() on the suffixes of Files
Lower(suffix) ==
    IF suffix = ".PDF" THEN ".pdf"
    ELSE IF suffix = ".TXT" THEN ".txt"
    ELSE IF suffix = ".DOCX" THEN ".docx"
    ELSE suffix

SUPPORTED_EXTENSIONS == {".pdf", ".txt", ".docx"}

\* Document._generate_id
DocId(t) == <<"doc_", t>>

\* Document(content=content, metadata=metadata)
Document(f, t) ==
    [doc_id |-> DocId(t), content |-> <<"content of", f.name, f.suffix>>,
     metadata |-> [filename |-> <<f.name, f.suffix>>, extension |-> Lower(f.suffix)]]

LoadRaisesExtensionFirst(f) ==
    IF Lower(f.suffix) \notin SUPPORTED_EXTENSIONS THEN "ValueError"
    ELSE IF ~f.exists THEN "FileNotFoundError"
    ELSE f.extract

\* the exception load(f) ends with, "none" when it returns
LoadRaises(f) ==
    IF ~f.exists THEN "FileNotFoundError"
    ELSE IF Lower(f.suffix) \notin SUPPORTED_EXTENSIONS THEN "ValueError"
    ELSE f.extract

\* self.loaded_documents[document.doc_id] = document
Registered(docs, doc) ==
    [id \in DOMAIN docs \cup {doc.doc_id} |-> IF id = doc.doc_id THEN doc ELSE docs[id]]

-----------------------------------------------------------------------------
(* ConversationMemory *)

\* MemoryConfig.short_term_limit, when no config is given
DefaultLimit == 10

\* the largest short_term_limit a config is given
MaxLimit == 1

\* messages added to one memory over its life
MaxMessages == 5

\* MemoryConfig(short_term_limit=...)
Limits == 0..MaxLimit

Roles == {"user", "assistant"}

\* s[-n:] for n >= 0: -0 is 0, so s[-0:] is the whole list
LastSlice(s, n) ==
    IF n = 0 THEN s
    ELSE SubSeq(s, (IF Len(s) > n THEN Len(s) - n + 1 ELSE 1), Len(s))

\* self.short_term_memory after add_message(message)
Remembered(message) ==
    IF Len(Append(short_term_memory, message)) > short_term_limit * 2
    THEN LastSlice(Append(short_term_memory, message), short_term_limit * 2)
    ELSE Append(short_term_memory, message)

-----------------------------------------------------------------------------
(* State *)

Context ==
    [livre |-> current_livre, titre |-> current_titre, chapitre |-> current_chapitre,
     section |-> current_section, article |-> current_article,
     number |-> current_article_number, text |-> current_article_text,
     i |-> i, nchunks |-> Len(chunks), chunks |-> chunks]

\* the four level fields
Levels ==
    [livre |-> current_livre, titre |-> current_titre, chapitre |-> current_chapitre,
     section |-> current_section]

NoLevels == [livre |-> None, titre |-> None, chapitre |-> None, section |-> None]

\* the context and chunks of a chunker just constructed
NewContext ==
    [livre |-> None, titre |-> None, chapitre |-> None, section |-> None,
     article |-> None, number |-> None, text |-> <<>>,
     i |-> 1, nchunks |-> 0, chunks |-> <<>>]

\* the attributes of the running instance and the frame of its parse_text
Instance ==
    [ctx |-> Context, text |-> text, lines |-> lines, pc |-> pc, result |-> result,
     entry |-> entry, start |-> start, born |-> born, order |-> order,
     handled |-> handled, atflush |-> atflush]

NewInstance ==
    [ctx |-> NewContext, text |-> <<>>, lines |-> <<>>, pc |-> "idle", result |-> <<>>,
     entry |-> 0, start |-> NewContext, born |-> NoLevels, order |-> <<>>,
     handled |-> <<>>, atflush |-> <<>>]

\* __init__ and _reset_context
Init ==
    /\ chunks = <<>>
    /\ current_livre = None
    /\ current_titre = None
    /\ current_chapitre = None
    /\ current_section = None
    /\ current_article = None
    /\ current_article_number = None
    /\ current_article_text = <<>>
    /\ text = <<>>
    /\ lines = <<>>
    /\ i = 1
    /\ pc = "idle"
    /\ result = <<>>
    /\ fed = 0
    /\ last = "init"
    /\ pre = Context
    /\ first = [done |-> FALSE, text |-> <<>>, result |-> <<>>]
    /\ entry = 0
    /\ file = NoFile
    /\ saved = <<>>
    /\ stats = NoStats
    /\ start = NewContext
    /\ born = NoLevels
    /\ order = <<>>
    /\ handled = <<>>
    /\ atflush = <<>>
    /\ short_term_memory = <<>>
    /\ short_term_limit = DefaultLimit
    /\ added = <<>>
    /\ memop = "init"
    /\ other = NewInstance
    /\ par = [suspended |-> NewInstance, resumed |-> NewInstance]
    /\ loaded_documents = <<>>
    /\ outcome = NoCall

\* parse_text, entry: the lines are taken from the text, the cursor is set;
\* neither the context nor self.chunks is touched
ParseText(txt) ==
    /\ pc \in {"idle", "done"}
    /\ fed + Len(txt) <= MaxLines
    /\ text' = txt
    /\ lines' = Normalise(txt)
    /\ i' = 1
    /\ pc' = "loop"
    /\ fed' = fed + Len(txt)
    /\ last' = "parse_text"
    /\ pre' = Context
    /\ entry' = Len(chunks)
    /\ start' = [Context EXCEPT !.i = 1]
    /\ handled' = <<>>
    /\ UNCHANGED <<born, order, atflush>>
    /\ UNCHANGED <<chunks, current_livre, current_titre, current_chapitre,
                   current_section, current_article, current_article_number,
                   current_article_text, result, first, others>>

\* process_pdf: reset of self.chunks and of the context, extraction, then
\* parse_text on the extracted text
ProcessPdf(pdf) ==
    /\ pc \in {"idle", "done"}
    /\ fed + Len(pdf) <= MaxLines
    /\ chunks' = <<>>
    /\ current_livre' = None
    /\ current_titre' = None
    /\ current_chapitre' = None
    /\ current_section' = None
    /\ current_article' = None
    /\ current_article_number' = None
    /\ current_article_text' = <<>>
    /\ text' = ExtractTextFromPdf(pdf)
    /\ lines' = Normalise(ExtractTextFromPdf(pdf))
    /\ i' = 1
    /\ pc' = "loop"
    /\ fed' = fed + Len(pdf)
    /\ last' = "process_pdf"
    /\ pre' = Context
    /\ entry' = 0
    /\ start' = NewContext
    /\ handled' = <<>>
    /\ UNCHANGED <<born, order, atflush>>
    /\ UNCHANGED <<result, first, others>>

-----------------------------------------------------------------------------
(* parse_text, the main loop: one action per branch of an iteration *)

InLoop == pc = "loop" /\ i <= Len(lines)

line == lines[i]

LookaheadAlways(title) == title = <<>> /\ i + 1 <= Len(lines)

\* the title continues on the next line: the inline title is empty, a next
\* line exists and does not begin with a keyword
Lookahead(title) ==
    title = <<>> /\ i + 1 <= Len(lines) /\ ~KeywordPrefix(lines[i + 1])

LabelAlwaysDot(word, m) ==
    LET inline == Strip(m.rest)
        title == IF Lookahead(inline) THEN lines[i + 1] ELSE inline
    IN  <<word, WS>> \o m.num \o <<".", WS>> \o title

\* f"<Word> {num}" + (f". {title}" if title else ""), the title being the
\* inline one or the line the lookahead took
Label(word, m) ==
    LET inline == Strip(m.rest)
        title == IF Lookahead(inline) THEN lines[i + 1] ELSE inline
    IN  <<word, WS>> \o m.num \o (IF title # <<>> THEN <<".", WS>> \o title ELSE <<>>)

NextCursorStay(m) == i

\* the cursor after a heading line: i += 1 for a consumed title, then i += 1
NextCursor(m) == IF Lookahead(Strip(m.rest)) THEN i + 2 ELSE i + 1

ChapitreLevelsKeepSection(label) ==
    [livre |-> current_livre, titre |-> current_titre, chapitre |-> label,
     section |-> current_section]

LivreLevelsKeepTitre(label) ==
    [livre |-> label, titre |-> current_titre, chapitre |-> None, section |-> None]

\* the four level fields after a heading of each level
LivreLevels(label) ==
    [livre |-> label, titre |-> None, chapitre |-> None, section |-> None]

TitreLevelsClearLivre(label) ==
    [livre |-> None, titre |-> label, chapitre |-> None, section |-> None]

TitreLevels(label) ==
    [livre |-> current_livre, titre |-> label, chapitre |-> None, section |-> None]

ChapitreLevels(label) ==
    [livre |-> current_livre, titre |-> current_titre, chapitre |-> label,
     section |-> None]

SectionLevels(label) ==
    [livre |-> current_livre, titre |-> current_titre,
     chapitre |-> current_chapitre, section |-> label]

\* what every heading branch does around its own label
Heading(kind, m, levels) ==
    /\ chunks' = SavedChunks
    /\ current_article_text' = SavedText
    /\ current_livre' = levels.livre
    /\ current_titre' = levels.titre
    /\ current_chapitre' = levels.chapitre
    /\ current_section' = levels.section
    /\ current_article' = None
    /\ current_article_number' = None
    /\ i' = NextCursor(m)
    /\ last' = kind
    /\ pre' = Context
    /\ order' = Append(SelectSeq(order, LAMBDA k : k # kind), kind)
    /\ atflush' = IF SaveFires THEN order ELSE atflush
    /\ handled' = handled \o <<kind>>
                   \o (IF Lookahead(Strip(m.rest)) THEN <<"title">> ELSE <<>>)
    /\ UNCHANGED <<text, lines, pc, result, fed, first, entry, start, born, others>>

LivreStep ==
    /\ InLoop
    /\ livre_match(line).ok
    /\ Heading("livre", livre_match(line), LivreLevels(Label("Livre", livre_match(line))))

TitreStep ==
    /\ InLoop
    /\ ~livre_match(line).ok
    /\ titre_match(line).ok
    /\ Heading("titre", titre_match(line), TitreLevels(Label("Titre", titre_match(line))))

ChapitreStep ==
    /\ InLoop
    /\ ~livre_match(line).ok
    /\ ~titre_match(line).ok
    /\ chapitre_match(line).ok
    /\ Heading("chapitre", chapitre_match(line),
               ChapitreLevels(Label("Chapitre", chapitre_match(line))))

SectionStep ==
    /\ InLoop
    /\ ~livre_match(line).ok
    /\ ~titre_match(line).ok
    /\ ~chapitre_match(line).ok
    /\ section_match(line).ok
    /\ Heading("section", section_match(line),
               SectionLevels(Label("Section", section_match(line))))

Unmatched(l) ==
    /\ ~livre_match(l).ok
    /\ ~titre_match(l).ok
    /\ ~chapitre_match(l).ok
    /\ ~section_match(l).ok

ArticleTextKeep(m) ==
    IF Strip(m.rest) # <<>> THEN Append(current_article_text, Strip(m.rest))
    ELSE current_article_text

\* the pending body after an Article line: the flush, then the inline fragment
ArticleText(m) ==
    IF Strip(m.rest) # <<>> THEN Append(SavedText, Strip(m.rest)) ELSE SavedText

ArticleStep ==
    /\ InLoop
    /\ Unmatched(line)
    /\ article_match(line).ok
    /\ chunks' = SavedChunks
    /\ current_article_number' = article_match(line).num
    /\ current_article' = <<"Article", WS>> \o article_match(line).num
    /\ current_article_text' = ArticleText(article_match(line))
    /\ i' = i + 1
    /\ last' = "article"
    /\ pre' = Context
    /\ born' = Levels
    /\ atflush' = IF SaveFires THEN order ELSE atflush
    /\ handled' = Append(handled, "article")
    /\ UNCHANGED <<current_livre, current_titre, current_chapitre, current_section,
                   text, lines, pc, result, fed, first, entry, start, order, others>>

CollectedAnyTime(l) == ~KeywordPrefix(l)

\* the line is collected: an article is active and the line begins with no keyword
Collected(l) == Truthy(current_article) /\ ~KeywordPrefix(l)

BodyTextPrepend(l) ==
    IF Collected(l) THEN <<l>> \o current_article_text ELSE current_article_text

\* self.current_article_text after the body-collection statement
BodyText(l) ==
    IF Collected(l) THEN Append(current_article_text, l) ELSE current_article_text

BodyStep ==
    /\ InLoop
    /\ Unmatched(line)
    /\ ~article_match(line).ok
    /\ current_article_text' = BodyText(line)
    /\ i' = i + 1
    /\ last' = "body"
    /\ pre' = Context
    /\ UNCHANGED <<chunks, current_livre, current_titre, current_chapitre,
                   current_section, current_article, current_article_number,
                   text, lines, pc, result, fed, first, entry, start, born, order,
                   atflush, others>>
    /\ handled' = Append(handled, "body")

FinalChunksNoFlush == chunks

\* self.chunks after the save that follows the loop
FinalChunks == SavedChunks

\* end of the loop: the last article is saved and self.chunks is returned
Return ==
    /\ pc = "loop"
    /\ i > Len(lines)
    /\ chunks' = FinalChunks
    /\ current_article_text' = SavedText
    /\ result' = FinalChunks
    /\ pc' = "done"
    /\ last' = "return"
    /\ pre' = Context
    /\ first' = IF first.done THEN first
                ELSE [done |-> TRUE, text |-> text, result |-> FinalChunks]
    /\ UNCHANGED <<current_livre, current_titre, current_chapitre, current_section,
                   current_article, current_article_number, text, lines, i, fed,
                   entry, start, born, order, handled, others>>
    /\ atflush' = IF SaveFires THEN order ELSE atflush

-----------------------------------------------------------------------------
(* The chunk store: save_to_json, load_from_json, get_statistics *)

Idle == pc \in {"idle", "done"}

SaveToJson ==
    /\ Idle
    /\ file' = JsonDump(chunks)
    /\ saved' = chunks
    /\ last' = "save_to_json"
    /\ pre' = Context
    /\ UNCHANGED <<chunks, current_livre, current_titre, current_chapitre,
                   current_section, current_article, current_article_number,
                   current_article_text, text, lines, i, pc, result, fed, first,
                   entry, stats, start, hist, threads, loader, memory>>

\* load_from_json of a file save_to_json wrote
LoadFromJson ==
    /\ Idle
    /\ file # NoFile
    /\ chunks' = LoadedChunks
    /\ result' = LoadedChunks
    /\ last' = "load_from_json"
    /\ pre' = Context
    /\ UNCHANGED <<current_livre, current_titre, current_chapitre,
                   current_section, current_article, current_article_number,
                   current_article_text, text, lines, i, pc, fed, first,
                   entry, file, saved, stats, start, hist, threads, loader, memory>>

GetStatistics ==
    /\ Idle
    /\ stats' = Statistics(chunks)
    /\ last' = "get_statistics"
    /\ pre' = Context
    /\ UNCHANGED <<chunks, current_livre, current_titre, current_chapitre,
                   current_section, current_article, current_article_number,
                   current_article_text, text, lines, i, pc, result, fed, first,
                   entry, file, saved, start, hist, threads, loader, memory>>

\* The lines of the documents the store is exercised with.
StoreLines ==
    { <<"LIVRE", WS, "I">>,
      <<"Titre", WS, "I">>,
      <<"Chapitre", WS, "II">>,
      <<"Section", WS, "1">>,
      <<"Art", ".", WS, "1", WS, "a">>,
      <<"Article", WS, "1", "-", "2">>,
      <<WS, "b", WS>> }

StoreTexts(n) == UNION { [1..m -> StoreLines] : m \in 1..n }

NextStore ==
    \/ \E txt \in StoreTexts(MaxLines - fed) : ParseText(txt)
    \/ LivreStep
    \/ TitreStep
    \/ ChapitreStep
    \/ SectionStep
    \/ ArticleStep
    \/ BodyStep
    \/ Return
    \/ SaveToJson
    \/ LoadFromJson
    \/ GetStatistics

SpecStore == Init /\ [][NextStore]_vars

-----------------------------------------------------------------------------
(* parse_text running to its end: the thread in the loop keeps executing *)

\* one iteration of the while loop, or the statements after it
Iteration ==
    \/ LivreStep
    \/ TitreStep
    \/ ChapitreStep
    \/ SectionStep
    \/ ArticleStep
    \/ BodyStep
    \/ Return

\* The lines of the documents the loop is run on.
LoopLines ==
    { <<"LIVRE", WS, "I">>,
      <<"Titre", WS, "I">>,
      <<"Chapitre", WS, "II">>,
      <<"Section", WS, "1">>,
      <<"Art", ".", WS, "1", WS, "a">>,
      <<WS, "b", WS>> }

LoopTexts(n) == UNION { [1..m -> LoopLines] : m \in 1..n }

NextLoop ==
    \/ \E txt \in LoopTexts(MaxLines - fed) : ParseText(txt)
    \/ LivreStep
    \/ TitreStep
    \/ ChapitreStep
    \/ SectionStep
    \/ ArticleStep
    \/ BodyStep
    \/ Return

SpecLoop == Init /\ [][NextLoop]_vars /\ WF_vars(Iteration)

-----------------------------------------------------------------------------
(* Two chunker instances, one thread each *)

ResumedChunksShared == chunks

\* self.chunks of the instance whose thread resumes
ResumedChunks == other.ctx.chunks

\* the scheduler suspends the running thread and resumes the other one: self
\* is now the other instance
Switch ==
    /\ other' = Instance
    /\ par' = [suspended |-> Instance, resumed |-> other]
    /\ chunks' = ResumedChunks
    /\ current_livre' = other.ctx.livre
    /\ current_titre' = other.ctx.titre
    /\ current_chapitre' = other.ctx.chapitre
    /\ current_section' = other.ctx.section
    /\ current_article' = other.ctx.article
    /\ current_article_number' = other.ctx.number
    /\ current_article_text' = other.ctx.text
    /\ i' = other.ctx.i
    /\ text' = other.text
    /\ lines' = other.lines
    /\ pc' = other.pc
    /\ result' = other.result
    /\ entry' = other.entry
    /\ start' = other.start
    /\ born' = other.born
    /\ order' = other.order
    /\ handled' = other.handled
    /\ atflush' = other.atflush
    /\ last' = "switch"
    /\ pre' = Context
    /\ UNCHANGED <<fed, first, store, loader, memory>>

\* The lines of the documents the two threads parse.
ParLines ==
    { <<"LIVRE", WS, "I">>,
      <<"Art", ".", WS, "1", WS, "a">>,
      <<"Article", WS, "1", "-", "2">>,
      <<WS, "b", WS>> }

ParTexts(n) == UNION { [1..m -> ParLines] : m \in 1..n }

NextPar ==
    \/ \E txt \in ParTexts(MaxLines - fed) : ParseText(txt)
    \/ LivreStep
    \/ ArticleStep
    \/ BodyStep
    \/ Return
    \/ Switch

SpecPar == Init /\ [][NextPar]_vars

-----------------------------------------------------------------------------
(* DocumentLoader: load and clear *)

Load(f, t) ==
    /\ loaded_documents' =
          IF LoadRaises(f) = "none" THEN Registered(loaded_documents, Document(f, t))
          ELSE loaded_documents
    /\ outcome' = [op |-> "load", path |-> f, raised |-> LoadRaises(f),
                   before |-> loaded_documents]
    /\ UNCHANGED <<chunks, current_livre, current_titre, current_chapitre,
                   current_section, current_article, current_article_number,
                   current_article_text, text, lines, i, pc, result, fed, last, pre,
                   first, entry, start, hist, store, threads, memory>>

Clear ==
    /\ loaded_documents' = <<>>
    /\ outcome' = [NoCall EXCEPT !.op = "clear", !.before = loaded_documents]
    /\ UNCHANGED <<chunks, current_livre, current_titre, current_chapitre,
                   current_section, current_article, current_article_number,
                   current_article_text, text, lines, i, pc, result, fed, last, pre,
                   first, entry, start, hist, store, threads, memory>>

NextLoader ==
    \/ \E f \in Files : \E t \in Times : Load(f, t)
    \/ Clear

SpecLoader == Init /\ [][NextLoader]_vars

-----------------------------------------------------------------------------
(* ConversationMemory: construction, add_message, clear_short_term *)

chunker == <<chunks, current_livre, current_titre, current_chapitre, current_section,
             current_article, current_article_number, current_article_text,
             text, lines, i, pc, result, fed, last, pre, first, entry, start, hist>>

\* ConversationMemory(user_id, config=MemoryConfig(short_term_limit=limit))
NewMemory(limit) ==
    /\ short_term_memory' = <<>>
    /\ short_term_limit' = limit
    /\ added' = <<>>
    /\ memop' = "new"
    /\ UNCHANGED <<chunker, store, threads, loader>>

AddMessage(role) ==
    /\ Len(added) < MaxMessages
    /\ LET message == [role |-> role, content |-> Len(added) + 1]
       IN  /\ short_term_memory' = Remembered(message)
           /\ added' = Append(added, message)
    /\ memop' = "add_message"
    /\ UNCHANGED <<short_term_limit, chunker, store, threads, loader>>

ClearShortTerm ==
    /\ short_term_memory' = <<>>
    /\ added' = <<>>
    /\ memop' = "clear_short_term"
    /\ UNCHANGED <<short_term_limit, chunker, store, threads, loader>>

NextMemory ==
    \/ \E limit \in Limits : NewMemory(limit)
    \/ \E role \in Roles : AddMessage(role)
    \/ ClearShortTerm

SpecMemory == Init /\ [][NextMemory]_vars

-----------------------------------------------------------------------------
(* parse_text and process_pdf on one chunker *)

Next ==
    \/ \E txt \in Texts(MaxLines - fed) : ParseText(txt)
    \/ \E pdf \in Texts(MaxLines - fed) : ProcessPdf(pdf)
    \/ LivreStep
    \/ TitreStep
    \/ ChapitreStep
    \/ SectionStep
    \/ ArticleStep
    \/ BodyStep
    \/ Return

Spec == Init /\ [][Next]_vars

-----------------------------------------------------------------------------
(* Vocabulary of the properties *)

HeadingKinds == {"livre", "titre", "chapitre", "section"}

\* the line matches one of the five matchers
AnyMatch(l) == ~Unmatched(l) \/ article_match(l).ok

IsArticleLine(l) == Unmatched(l) /\ article_match(l).ok

\* the match of a heading line, by the branch that took it
MatchOf(kind, l) ==
    IF kind = "livre" THEN livre_match(l)
    ELSE IF kind = "titre" THEN titre_match(l)
    ELSE IF kind = "chapitre" THEN chapitre_match(l)
    ELSE section_match(l)

WordOf(kind) ==
    IF kind = "livre" THEN "Livre"
    ELSE IF kind = "titre" THEN "Titre"
    ELSE IF kind = "chapitre" THEN "Chapitre"
    ELSE "Section"

LevelOf(kind) ==
    IF kind = "livre" THEN current_livre
    ELSE IF kind = "titre" THEN current_titre
    ELSE IF kind = "chapitre" THEN current_chapitre
    ELSE current_section

FreshContext ==
    /\ current_livre = None
    /\ current_titre = None
    /\ current_chapitre = None
    /\ current_section = None
    /\ current_article = None
    /\ current_article_number = None
    /\ current_article_text = <<>>

\* the lines collected for the article from line k on, up to the next
\* heading, article or end of input
RECURSIVE CollectedFrom(_, _)
CollectedFrom(ls, k) ==
    IF k > Len(ls) \/ AnyMatch(ls[k]) THEN <<>>
    ELSE (IF KeywordPrefix(ls[k]) THEN <<>> ELSE <<ls[k]>>) \o CollectedFrom(ls, k + 1)

\* the accumulated body of the Article line at j: inline fragment, then the
\* collected lines
BodyOf(ls, j) ==
    (IF Strip(article_match(ls[j]).rest) # <<>>
     THEN <<Strip(article_match(ls[j]).rest)>> ELSE <<>>)
    \o CollectedFrom(ls, j + 1)

ArticleLinesWithBody(ls) ==
    {j \in 1..Len(ls) : IsArticleLine(ls[j]) /\ BodyOf(ls, j) # <<>>}

BlankText(txt) == \A k \in 1..Len(txt) : Strip(txt[k]) = <<>>

FirstHyphen(n) == CHOOSE k \in 1..Len(n) : n[k] = "-" /\ \A m \in 1..(k - 1) : n[m] # "-"

ParseStarted == pc = "loop" /\ last \in {"parse_text", "process_pdf"}

-----------------------------------------------------------------------------
(* parse_text run to its end by one thread, as a function of the context and
   chunks c it starts or continues from and of the lines ls *)

\* _create_chunk on the context c
ChunkOf(c, article_text) ==
    [id |-> chunk_id(c.number),
     text |-> Strip(Join(<<WS>>, article_text)),
     metadata |->
        [livre |-> c.livre,
         titre |-> c.titre,
         chapitre |-> c.chapitre,
         section |-> c.section,
         article |-> c.article,
         article_number |-> c.number,
         base_article |-> base_article(c.number),
         is_sub_article |-> is_sub_article(c.number),
         law |-> <<"Code du travail tunisien">>,
         chunk_type |-> "article",
         citation |-> <<"Code du travail tunisien, art. ">> \o c.number,
         hierarchy_path |->
            Join(<<WS, ">", WS>>,
                 HierarchyPart(c.livre, LivreKw, "Livre")
                 \o HierarchyPart(c.titre, TitreKw, "Titre")
                 \o HierarchyPart(c.chapitre, ChapitreKw, "Chapitre")
                 \o HierarchyPart(c.section, SectionKw, "Section")
                 \o <<c.article>>)]]

\* _save_article_chunk on the context c
Flushed(c) ==
    LET cleaned == SelectSeq(StripAll(c.text), NonEmpty)
    IN  IF Truthy(c.article) /\ c.text # <<>> /\ cleaned # <<>>
        THEN [c EXCEPT !.chunks = Append(@, ChunkOf(c, cleaned)),
                       !.nchunks = @ + 1,
                       !.text = <<>>]
        ELSE c

\* a heading branch: the flush, the label with its title, the levels below
\* and the article cleared, the cursor moved
AfterHeading(c, ls, kind, m) ==
    LET inline == Strip(m.rest)
        taken == inline = <<>> /\ c.i + 1 <= Len(ls) /\ ~KeywordPrefix(ls[c.i + 1])
        title == IF taken THEN ls[c.i + 1] ELSE inline
        label == <<WordOf(kind), WS>> \o m.num
                 \o (IF title # <<>> THEN <<".", WS>> \o title ELSE <<>>)
    IN  [Flushed(c) EXCEPT
           !.livre = IF kind = "livre" THEN label ELSE @,
           !.titre = IF kind = "titre" THEN label
                     ELSE IF kind = "livre" THEN None ELSE @,
           !.chapitre = IF kind = "chapitre" THEN label
                        ELSE IF kind \in {"livre", "titre"} THEN None ELSE @,
           !.section = IF kind = "section" THEN label ELSE None,
           !.article = None,
           !.number = None,
           !.i = IF taken THEN @ + 2 ELSE @ + 1]

\* the Article branch
AfterArticle(c, m) ==
    [Flushed(c) EXCEPT
       !.number = m.num,
       !.article = <<"Article", WS>> \o m.num,
       !.text = IF Strip(m.rest) # <<>> THEN Append(@, Strip(m.rest)) ELSE @,
       !.i = @ + 1]

\* one iteration of the loop
AfterLine(c, ls) ==
    LET l == ls[c.i]
    IN  IF livre_match(l).ok THEN AfterHeading(c, ls, "livre", livre_match(l))
        ELSE IF titre_match(l).ok THEN AfterHeading(c, ls, "titre", titre_match(l))
        ELSE IF chapitre_match(l).ok THEN AfterHeading(c, ls, "chapitre", chapitre_match(l))
        ELSE IF section_match(l).ok THEN AfterHeading(c, ls, "section", section_match(l))
        ELSE IF article_match(l).ok THEN AfterArticle(c, article_match(l))
        ELSE [c EXCEPT
                !.text = IF Truthy(c.article) /\ ~KeywordPrefix(l) THEN Append(@, l) ELSE @,
                !.i = @ + 1]

\* the list parse_text returns
RECURSIVE RunAlone(_, _)
RunAlone(c, ls) ==
    IF c.i > Len(ls) THEN Flushed(c).chunks ELSE RunAlone(AfterLine(c, ls), ls)

-----------------------------------------------------------------------------
(* Properties *)

\* C1: at the start of every parse_text invocation the parser context is
\* fresh (Book, Title, Chapter, Section, article label and number absent, the
\* pending body empty), whatever earlier invocations on the chunker left behind.
C1_FreshContextAtParseStart == ParseStarted => FreshContext

\* C2: parsing is deterministic: an invocation of parse_text on the text of
\* the chunker's first invocation returns the chunk sequence that one returned.
C2_Deterministic ==
    (pc = "done" /\ first.done /\ text = first.text) => result = first.result

\* C3: in a parse the number of chunks emitted equals the number of Article
\* lines whose accumulated body is non-empty (one chunk for each of them, none
\* for an Article line with an empty body).
C3_ChunkPerArticleWithBody ==
    pc = "done" => Len(chunks) - entry = Cardinality(ArticleLinesWithBody(lines))

\* C4: a heading of level L clears every level field strictly below L and the
\* active article label and number.
C4_HeadingClearsBelow ==
    /\ last \in HeadingKinds => current_article = None /\ current_article_number = None
    /\ last \in {"livre", "titre", "chapitre"} => current_section = None
    /\ last \in {"livre", "titre"} => current_chapitre = None
    /\ last = "livre" => current_titre = None

C4_Witness ==
    /\ last = "chapitre"
    /\ Truthy(pre.section)
    /\ Truthy(pre.article)
    /\ Truthy(current_chapitre)

\* C5: an article still active at end of input with a non-empty body is
\* flushed: the returned sequence ends with one new chunk, that article's.
C5_FinalFlush ==
    (last = "return" /\ Truthy(pre.article) /\ pre.text # <<>>) =>
        /\ Len(result) = pre.nchunks + 1
        /\ result[Len(result)].metadata.article = pre.article
        /\ result[Len(result)].metadata.article_number = pre.number
        /\ result[Len(result)].text = Strip(Join(<<WS>>, pre.text))

C5_Witness == last = "return" /\ Truthy(pre.article) /\ pre.text # <<>>

\* C6: parsing an empty or whitespace-only string returns an empty chunk
\* sequence.
C6_BlankTextEmptyResult == (pc = "done" /\ BlankText(text)) => result = <<>>

\* C7: for every chunk, is_sub_article holds iff the article number contains a
\* hyphen; base_article is then the part before the first hyphen, and the
\* whole number otherwise.
C7_SubArticle ==
    \A k \in 1..Len(chunks) :
        LET m == chunks[k].metadata
            n == m.article_number
        IN  /\ m.is_sub_article <=> (\E h \in 1..Len(n) : n[h] = "-")
            /\ m.is_sub_article => m.base_article = SubSeq(n, 1, FirstHyphen(n) - 1)
            /\ ~m.is_sub_article => m.base_article = n

C7_Witness ==
    /\ \E k \in 1..Len(chunks) : chunks[k].metadata.is_sub_article
    /\ \E k \in 1..Len(chunks) : ~chunks[k].metadata.is_sub_article

\* C8: two Article lines of one input with the same number and non-empty
\* bodies give two separate chunks with the same id, in source order, each with
\* its own body.
C8_DuplicatesKept ==
    pc = "done" =>
        \A j \in ArticleLinesWithBody(lines) : \A k \in ArticleLinesWithBody(lines) :
            (j < k /\ article_match(lines[j]).num = article_match(lines[k]).num) =>
                \E p \in (entry + 1)..Len(chunks) : \E q \in (entry + 1)..Len(chunks) :
                    /\ p < q
                    /\ chunks[p].id = chunks[q].id
                    /\ chunks[p].metadata.article_number = article_match(lines[j]).num
                    /\ chunks[q].metadata.article_number = article_match(lines[k]).num
                    /\ chunks[p].text = Strip(Join(<<WS>>, BodyOf(lines, j)))
                    /\ chunks[q].text = Strip(Join(<<WS>>, BodyOf(lines, k)))

C8_Witness ==
    /\ pc = "done"
    /\ \E j \in ArticleLinesWithBody(lines) : \E k \in ArticleLinesWithBody(lines) :
          /\ j < k
          /\ article_match(lines[j]).num = article_match(lines[k]).num
          /\ BodyOf(lines, j) # BodyOf(lines, k)

\* C9 as stated: every line that matches none of the five matchers while an
\* article is active is appended unchanged to the pending body.
C9_UnmatchedLineAppended ==
    (last = "body" /\ Truthy(pre.article)) =>
        current_article_text = Append(pre.text, lines[pre.i])

\* C9 amended: a line that matches none of the five matchers while an article
\* is active is appended unchanged to the pending body when it does not begin
\* with one of the keywords LIVRE, Titre, Chapitre, Section, Art, and is
\* dropped when it does; the chunk of an article carries its pending body, the
\* lines in order and joined by single spaces.
C9_PlainLineAppended ==
    /\ (last = "body" /\ Truthy(pre.article) /\ ~KeywordPrefix(lines[pre.i])) =>
          current_article_text = Append(pre.text, lines[pre.i])
    /\ (last = "body" /\ Truthy(pre.article) /\ KeywordPrefix(lines[pre.i])) =>
          current_article_text = pre.text
    /\ (last \notin {"init", "parse_text", "process_pdf"} /\ Len(chunks) = pre.nchunks + 1) =>
          chunks[Len(chunks)].text = Strip(Join(<<WS>>, pre.text))

C9_Witness ==
    /\ last = "return"
    /\ Len(pre.text) >= 2
    /\ Len(chunks) = pre.nchunks + 1

\* C10 as stated: after a heading line with an empty inline fragment, a next
\* line that matches none of the five matchers becomes the heading's title and
\* is skipped by the cursor.
C10_UnmatchedNextLineConsumed ==
    (/\ last \in HeadingKinds
     /\ Strip(MatchOf(last, lines[pre.i]).rest) = <<>>
     /\ pre.i + 1 <= Len(lines)
     /\ ~AnyMatch(lines[pre.i + 1])) =>
        /\ i = pre.i + 2
        /\ LevelOf(last) = <<WordOf(last), WS>> \o MatchOf(last, lines[pre.i]).num
                           \o <<".", WS>> \o lines[pre.i + 1]

\* C10 amended: after a heading line with an empty inline fragment, a next
\* line that does not begin with one of the keywords LIVRE, Titre, Chapitre,
\* Section, Art becomes the heading's title and is skipped by the cursor,
\* joining no body; in every other case the cursor advances by one line only
\* and the next line is left to its own classification.
C10_PlainNextLineConsumed ==
    last \in HeadingKinds =>
        IF /\ Strip(MatchOf(last, lines[pre.i]).rest) = <<>>
           /\ pre.i + 1 <= Len(lines)
           /\ ~KeywordPrefix(lines[pre.i + 1])
        THEN /\ i = pre.i + 2
             /\ LevelOf(last) = <<WordOf(last), WS>> \o MatchOf(last, lines[pre.i]).num
                                \o <<".", WS>> \o lines[pre.i + 1]
             /\ current_article_text = <<>>
        ELSE /\ i = pre.i + 1
             /\ LevelOf(last) = <<WordOf(last), WS>> \o MatchOf(last, lines[pre.i]).num
                                \o (IF Strip(MatchOf(last, lines[pre.i]).rest) = <<>>
                                    THEN <<>>
                                    ELSE <<".", WS>> \o Strip(MatchOf(last, lines[pre.i]).rest))

C10_Witness ==
    /\ last \in HeadingKinds
    /\ i = pre.i + 2
    /\ i <= Len(lines)

\* C11: a heading line with an empty inline fragment that is the last line, or
\* whose next line matches a heading or article matcher, keeps an empty title:
\* its level field is exactly "<Keyword> <numeral>" and the cursor advances by
\* one, so that the next line is classified by the next iteration.
C11_NoTitleKeepsBareLabel ==
    (/\ last \in HeadingKinds
     /\ Strip(MatchOf(last, lines[pre.i]).rest) = <<>>
     /\ (pre.i + 1 > Len(lines) \/ AnyMatch(lines[pre.i + 1]))) =>
        /\ LevelOf(last) = <<WordOf(last), WS>> \o MatchOf(last, lines[pre.i]).num
        /\ i = pre.i + 1
        /\ (i <= Len(lines) => AnyMatch(lines[i]))

C11_Witness ==
    /\ last \in HeadingKinds
    /\ Strip(MatchOf(last, lines[pre.i]).rest) = <<>>
    /\ pre.i + 1 <= Len(lines)
    /\ IsArticleLine(lines[pre.i + 1])
    /\ i = pre.i + 1

\* C12: a line that matches none of the five matchers while no article is
\* active changes no context field, no pending body and no chunk.
C12_DroppedLineChangesNothing ==
    (last = "body" /\ ~Truthy(pre.article)) =>
        /\ current_livre = pre.livre
        /\ current_titre = pre.titre
        /\ current_chapitre = pre.chapitre
        /\ current_section = pre.section
        /\ current_article = pre.article
        /\ current_article_number = pre.number
        /\ current_article_text = pre.text
        /\ chunks = pre.chunks
        /\ i = pre.i + 1

C12_Witness ==
    /\ last = "body"
    /\ ~Truthy(pre.article)
    /\ ~KeywordPrefix(lines[pre.i])
    /\ Truthy(pre.livre)

\* the "<Keyword> <numeral>" segment of a level label, none for an absent level
Segment(label, word) == IF label = None THEN <<>> ELSE << <<word, WS, label[3]>> >>

C14_ChunkId ==
    /\ \A k \in 1..Len(chunks) :
          LET n == chunks[k].metadata.article_number
              id == chunks[k].id
          IN  /\ Len(id) = Len(n) + 1
              /\ id[1] = "CT_TN_A"
              /\ \A h \in 1..Len(n) : id[h + 1] = (IF n[h] = "-" THEN "_" ELSE n[h])
    /\ \A k \in 1..Len(chunks) : \A l \in 1..Len(chunks) :
          (chunks[k].id = chunks[l].id) <=>
              (chunks[k].metadata.article_number = chunks[l].metadata.article_number)

C14_Witness ==
    \E k \in 1..Len(chunks) : \E l \in 1..Len(chunks) :
        /\ chunks[k].id # chunks[l].id
        /\ chunks[k].metadata.is_sub_article

\* the chunks the Article lines of ls give, in the order of those lines
RECURSIVE ExpectedFrom(_, _)
ExpectedFrom(ls, j) ==
    IF j > Len(ls) THEN <<>>
    ELSE (IF j \in ArticleLinesWithBody(ls)
          THEN << [number |-> article_match(ls[j]).num,
                   text |-> Strip(Join(<<WS>>, BodyOf(ls, j)))] >>
          ELSE <<>>) \o ExpectedFrom(ls, j + 1)

NumberAndText(c) == [number |-> c.metadata.article_number, text |-> c.text]

\* C15: during a parse the chunk sequence is append-only: a step leaves it
\* unchanged or adds one chunk at its end; and the chunks of the Article lines
\* of the input are its last chunks, in the order of those lines.
C15_AppendOnlyInOrder ==
    /\ last \in HeadingKinds \cup {"article", "body", "return"} =>
          \/ chunks = pre.chunks
          \/ /\ Len(chunks) = Len(pre.chunks) + 1
             /\ SubSeq(chunks, 1, Len(pre.chunks)) = pre.chunks
    /\ pc = "done" =>
          LET exp == ExpectedFrom(lines, 1)
              off == Len(chunks) - Len(exp)
          IN  /\ off >= entry
              /\ \A k \in 1..Len(exp) : NumberAndText(chunks[off + k]) = exp[k]

C15_Witness ==
    /\ pc = "done"
    /\ Len(chunks) >= 2
    /\ entry = 0
    /\ chunks[1].metadata.article_number # chunks[2].metadata.article_number

\* C16: save_to_json followed by load_from_json yields the saved chunk
\* sequence, equal in order and content, for every chunk sequence a chunker
\* holds; the file keeps it whatever the chunker does in between, and the
\* loaded sequence replaces the chunks the loading chunker held before.
C16_RoundTrip ==
    /\ JsonLoad(JsonDump(chunks)) = chunks
    /\ file # NoFile => JsonLoad(file) = saved
    /\ last = "load_from_json" => chunks = saved /\ result = saved

C16_Witness ==
    /\ last = "load_from_json"
    /\ saved # <<>>
    /\ pre.chunks # <<>>
    /\ pre.chunks # saved

\* the distinct non-absent labels the chunks carry at one level
Labels(cs, level) == {cs[k].metadata[level] : k \in 1..Len(cs)} \ {None}

\* C17: get_statistics returns total_chunks equal to the number of chunks,
\* sub_articles equal to the number of chunks with is_sub_article true,
\* base_articles + sub_articles = total_chunks, and for each of Book, Title,
\* Chapter, Section the number of distinct non-absent labels over all chunks;
\* it leaves the chunk list unchanged.
C17_Statistics ==
    last = "get_statistics" =>
        /\ stats.total_chunks = Len(chunks)
        /\ stats.sub_articles =
              Cardinality({k \in 1..Len(chunks) : chunks[k].metadata.is_sub_article})
        /\ stats.base_articles + stats.sub_articles = stats.total_chunks
        /\ stats.livres = Cardinality(Labels(chunks, "livre"))
        /\ stats.titres = Cardinality(Labels(chunks, "titre"))
        /\ stats.chapitres = Cardinality(Labels(chunks, "chapitre"))
        /\ stats.sections = Cardinality(Labels(chunks, "section"))
        /\ chunks = pre.chunks

C17_Witness ==
    /\ last = "get_statistics"
    /\ stats.total_chunks = 2
    /\ stats.livres = 1
    /\ chunks[1].metadata.livre = chunks[2].metadata.livre

\* C18: parses of independent documents on two chunker instances, interleaved
\* step by step in any order and without locking: a thread resumes with its
\* instance exactly as it left it, whatever the other thread did in between,
\* and each parse, at every point of it, ends with the chunk sequence that
\* parse_text run alone from where the parse began returns.
C18_InterleavedAsAlone ==
    /\ last = "switch" => (Instance = par.resumed /\ other = par.suspended)
    /\ pc = "loop" => RunAlone(Context, lines) = RunAlone(start, lines)
    /\ pc = "done" => result = RunAlone(start, lines)
    /\ other.pc = "loop" => RunAlone(other.ctx, other.lines) = RunAlone(other.start, other.lines)
    /\ other.pc = "done" => other.result = RunAlone(other.start, other.lines)

C18_Witness ==
    /\ last = "switch"
    /\ par.suspended.pc = "loop"
    /\ par.resumed.pc = "loop"
    /\ par.suspended.ctx.i > 1
    /\ par.resumed.ctx.i > 1
    /\ par.suspended.ctx.chunks # <<>>
    /\ par.suspended.text # par.resumed.text

\* C19: load raises FileNotFoundError for a path that does not exist, whatever
\* its extension, and ValueError for an existing file whose extension is none
\* of .pdf, .txt, .docx; in both cases loaded_documents is left as it was.
C19_LoadRejects ==
    outcome.op = "load" =>
        /\ ~outcome.path.exists =>
              (outcome.raised = "FileNotFoundError" /\ loaded_documents = outcome.before)
        /\ (outcome.path.exists
            /\ Lower(outcome.path.suffix) \notin {".pdf", ".txt", ".docx"}) =>
              (outcome.raised = "ValueError" /\ loaded_documents = outcome.before)

C19_Witness ==
    /\ outcome.op = "load"
    /\ outcome.raised = "FileNotFoundError"
    /\ outcome.path.suffix = ".xyz"
    /\ loaded_documents # <<>>

\* C20: a heading of level L leaves every level field above L unchanged; an
\* Article line and a body line leave all four level fields unchanged.
C20_UpperLevelsKept ==
    /\ last \in {"titre", "chapitre", "section", "article", "body"} =>
          current_livre = pre.livre
    /\ last \in {"chapitre", "section", "article", "body"} => current_titre = pre.titre
    /\ last \in {"section", "article", "body"} => current_chapitre = pre.chapitre
    /\ last \in {"article", "body"} => current_section = pre.section

C20_Witness ==
    /\ last = "chapitre"
    /\ Truthy(pre.livre)
    /\ Truthy(pre.titre)

\* the step emitted a chunk
Emitted == Len(chunks) = pre.nchunks + 1

LevelsOf(m) ==
    [livre |-> m.livre, titre |-> m.titre, chapitre |-> m.chapitre, section |-> m.section]

\* C21: when a heading line arrives while an article with a non-empty body is
\* active, the chunk emitted for that article carries the Book, Title, Chapter
\* and Section labels in force when the article started, which are those in
\* force just before the heading, not those the heading leaves.
C21_FlushBeforeHeading ==
    (last \in HeadingKinds /\ Emitted) =>
        /\ LevelsOf(chunks[Len(chunks)].metadata) = born
        /\ LevelsOf(chunks[Len(chunks)].metadata) = LevelsOf(pre)
        /\ chunks[Len(chunks)].metadata.article = pre.article

C21_Witness ==
    /\ last \in HeadingKinds
    /\ Emitted
    /\ Truthy(chunks[Len(chunks)].metadata.section)
    /\ current_section = None
    /\ LevelOf(last) # pre[last]

\* C22: every flush that emits a chunk leaves the pending body empty and the
\* active article label and number absent, the four level fields being those
\* from before the flush; the final flush at end of input included.
C22_FlushClearsArticle ==
    /\ (last \in HeadingKinds \cup {"return"} /\ Emitted) =>
          /\ current_article_text = <<>>
          /\ current_article = None
          /\ current_article_number = None
    /\ (last = "return" /\ Emitted) => Levels = LevelsOf(pre)

\* C23: after an Article line the article number is the captured token, the
\* label is "Article <number>" and the pending body is exactly the inline
\* fragment of that line, empty when there is none: nothing of the previous
\* article carries over.
C23_ArticleStartsClean ==
    last = "article" =>
        LET m == article_match(lines[pre.i])
        IN  /\ current_article_number = m.num
            /\ current_article = <<"Article", WS>> \o m.num
            /\ current_article_text =
                  (IF Strip(m.rest) # <<>> THEN <<Strip(m.rest)>> ELSE <<>>)

C23_Witness ==
    /\ last = "article"
    /\ Truthy(pre.article)
    /\ pre.text # <<>>
    /\ pre.number # current_article_number

\* an Article line of this parse precedes line k
ArticleBefore(ls, k) == \E j \in 1..(k - 1) : IsArticleLine(ls[j])

\* the last Article line before line k
LastArticleBefore(ls, k) ==
    CHOOSE j \in 1..(k - 1) :
        IsArticleLine(ls[j]) /\ \A h \in (j + 1)..(k - 1) : ~IsArticleLine(ls[h])

\* inline fragment of the Article line at j, then every line up to line k
AllBetween(ls, j, k) ==
    (IF Strip(article_match(ls[j]).rest) # <<>>
     THEN <<Strip(article_match(ls[j]).rest)>> ELSE <<>>)
    \o SubSeq(ls, j + 1, k - 1)

SinglePass ==
    /\ last \in HeadingKinds \cup {"article", "body"} =>
          /\ i \in {pre.i + 1, pre.i + 2}
          /\ (i = pre.i + 2) <=> (last \in HeadingKinds /\ handled[Len(handled)] = "title")
    /\ Len(handled) = i - 1
    /\ i <= Len(lines) + 1
    /\ pc = "done" => Len(handled) = Len(lines)
    /\ \A k \in 1..Len(handled) :
          handled[k] = "title" => (k > 1 /\ handled[k - 1] \in HeadingKinds)

\* C25: parse_text terminates on every input in a single left-to-right pass:
\* each iteration moves the cursor forward by one line, or by two when a
\* continuation title is consumed, never backwards; every line is handled
\* exactly once, as a classified line or as a consumed title; and a parse that
\* has begun reaches its return.
C25_SinglePassTerminates == []SinglePass /\ (pc = "loop" ~> pc = "done")

C25_Witness ==
    /\ last = "return"
    /\ Len(lines) >= 3
    /\ \E k \in 1..Len(handled) : handled[k] = "title"

\* C26: in every state at most one article is active: the article label and
\* the article number are present or absent together, the label being
\* "Article <number>", and a non-empty pending body implies an active article.
C26_OneActiveArticle ==
    /\ (current_article = None) <=> (current_article_number = None)
    /\ Truthy(current_article) =>
          current_article = <<"Article", WS>> \o current_article_number
    /\ current_article_text # <<>> => Truthy(current_article)

C26_Witness ==
    /\ last \in HeadingKinds
    /\ Truthy(pre.article)
    /\ pre.text # <<>>
    /\ current_article = None
    /\ current_article_text = <<>>

\* the place of a level in a heading order, 0 when it was never met
Pos(kind, ord) ==
    IF \E k \in 1..Len(ord) : ord[k] = kind
    THEN CHOOSE k \in 1..Len(ord) : ord[k] = kind
    ELSE 0

\* every non-absent label of lv was set after the most recent heading of
\* every higher level, ord being the order of the headings
Nested(lv, ord) ==
    /\ Truthy(lv.titre) => Pos("titre", ord) > Pos("livre", ord)
    /\ Truthy(lv.chapitre) =>
          /\ Pos("chapitre", ord) > Pos("livre", ord)
          /\ Pos("chapitre", ord) > Pos("titre", ord)
    /\ Truthy(lv.section) =>
          /\ Pos("section", ord) > Pos("livre", ord)
          /\ Pos("section", ord) > Pos("titre", ord)
          /\ Pos("section", ord) > Pos("chapitre", ord)

\* C27: in every parser state, and in every chunk at the moment it is emitted,
\* a non-absent level label was set after the most recent heading of every
\* higher level.
C27_Nesting ==
    /\ Nested(Levels, order)
    /\ (last \in HeadingKinds \cup {"article", "return"} /\ Emitted) =>
          Nested(LevelsOf(chunks[Len(chunks)].metadata), atflush)

C27_Witness ==
    /\ last = "return"
    /\ Emitted
    /\ Truthy(chunks[Len(chunks)].metadata.livre)
    /\ chunks[Len(chunks)].metadata.titre = None
    /\ Pos("titre", atflush) > 0

\* the branch that takes a line when the loop classifies it
KindOfLine(l) ==
    IF livre_match(l).ok THEN "livre"
    ELSE IF titre_match(l).ok THEN "titre"
    ELSE IF chapitre_match(l).ok THEN "chapitre"
    ELSE IF section_match(l).ok THEN "section"
    ELSE IF article_match(l).ok THEN "article"
    ELSE "body"

\* C28: the lookahead never consumes a line that matches the Book, Title,
\* Chapter, Section or Article matcher: every such line is processed by its
\* own branch, and a line taken as a title matches none of them.
C28_LookaheadSparesMatches ==
    /\ \A k \in 1..Len(lines) : AnyMatch(lines[k]) => KeywordPrefix(lines[k])
    /\ \A k \in 1..Len(handled) :
          /\ AnyMatch(lines[k]) => handled[k] = KindOfLine(lines[k])
          /\ handled[k] = "title" => ~AnyMatch(lines[k])

C28_Witness ==
    /\ pc = "done"
    /\ \E k \in 1..(Len(handled) - 1) :
          /\ handled[k] \in HeadingKinds
          /\ Strip(MatchOf(handled[k], lines[k]).rest) = <<>>
          /\ handled[k + 1] \in HeadingKinds

\* C29: every emitted chunk is well formed: its text is non-empty, its
\* article number is present, its article label is "Article " followed by
\* that number, its chunk_type is "article" and its citation is the law name
\* template followed by that number.
C29_WellFormedChunk ==
    \A k \in 1..Len(chunks) :
        LET c == chunks[k]
            m == c.metadata
        IN  /\ c.text # <<>>
            /\ Truthy(m.article_number)
            /\ m.article = <<"Article", WS>> \o m.article_number
            /\ m.chunk_type = "article"
            /\ m.law = <<"Code du travail tunisien">>
            /\ m.citation = <<"Code du travail tunisien, art. ">> \o m.article_number

C29_Witness ==
    \E k \in 1..Len(chunks) :
        /\ Len(chunks[k].text) >= 3
        /\ Truthy(chunks[k].metadata.chapitre)

\* the n most recent of the messages ms, in insertion order
MostRecent(ms, n) == SubSeq(ms, (IF Len(ms) > n THEN Len(ms) - n + 1 ELSE 1), Len(ms))

\* C30: after any sequence of add_message calls short_term_memory holds at
\* most 2 * short_term_limit messages, the most recently added ones in
\* insertion order; clear_short_term empties it.
C30_ShortTermBounded ==
    /\ Len(short_term_memory) <= 2 * short_term_limit
    /\ short_term_memory = MostRecent(added, 2 * short_term_limit)
    /\ memop = "clear_short_term" => short_term_memory = <<>>

====
